---- MODULE Spec2Model ----
(***************************************************************************)
(* DarkPyonix_km/manager.py: StickyMappingKernelManager.                   *)
(*                                                                         *)
(* The manager intercepts start_kernel / start_kernel_async, derives a     *)
(* deterministic kernel id from (absolute path, kernel name, namespace)    *)
(* and either reuses the registered kernel or delegates to the superclass  *)
(* start operation with the proposed id.                                   *)
(*                                                                         *)
(* Python values are modelled as tagged tuples: a missing dict key is      *)
(* Absent, None is None, a str is <<"str", chars>> with chars a sequence   *)
(* of one-character strings.  The model fixes the POSIX build              *)
(* (os.name = "posix", os.sep = "/").                                      *)
(***************************************************************************)
EXTENDS Integers, Sequences, FiniteSets, TLC

\* ------------------------------------------------------------------------
\* Python values
\* ------------------------------------------------------------------------
Absent == <<"absent">>
None == <<"none">>
Str(s) == <<"str", s>>
Dict(d) == <<"dict", d>>

IsStr(v) == v[1] = "str"
\* Python truthiness of an optional str: None and "" are falsy.
Truthy(v) == IsStr(v) /\ v[2] # <<>>
\* dict.get(key) with the default None
GetOrNone(v) == IF v = Absent THEN None ELSE v
\* Python's `a or b`
PyOr(a, b) == IF Truthy(a) THEN a ELSE b

\* ------------------------------------------------------------------------
\* Bounds of the model
\* ------------------------------------------------------------------------
\* kernels the underlying manager may have spawned in one behaviour
MaxKernels == 2
\* start_kernel_async coroutines in flight at once
MaxTasks == 2
\* start_kernel calls made for one session in a sequential run
MaxRequests == 3

\* ------------------------------------------------------------------------
\* The host: working directory, server root, file system links, environment
\* ------------------------------------------------------------------------
Cwd == <<"/", "w">>
ServerRoot == Str(<<"/", "r">>)
RootDirs == {None, ServerRoot}
\* symbolic links of the file system: link path components -> target components
SymLinks == [p \in {<< <<"r">>, <<"l">> >>} |-> << <<"r">>, <<"a">> >>]

\* values os.environ.get("STICKYKM_NAMESPACE") may give: unset, empty,
\* a string that is no UUID, the canonical and the braced spelling of one UUID
NsUnset == None
NsEmpty == Str(<<>>)
NsMalformed == Str(<<"d", "e", "f", "a", "u", "l", "t", "-", "v">>)
NsOne == Str(<<"1", "1">>)
NsOneBraced == Str(<<"{", "1", "1", "}">>)
NsTwo == Str(<<"2", "2">>)
\* the value the installer writes for a second project (setup.py:62) and
\* the value the usage guide shows (config.py:141); NsMalformed is the
\* installer's value for the first project
NsOtherProject == Str(<<"d", "e", "f", "a", "u", "l", "t", "-", "w">>)
NsUsageGuide == Str(<<"m", "y", "-", "p", "r", "o", "j", "e", "c", "t">>)

\* manager.py:16
DEFAULT_NAMESPACE == <<"uuid", <<"f", "2">>>>

\* uuid.UUID(v): strips braces (and "urn:uuid:", hyphens), then the hex digits
\* must parse; hex strings are shortened to two digits in the model.
HexDigits == {"0", "1", "2", "3", "4", "5", "6", "7", "8", "9",
              "a", "b", "c", "d", "e", "f"}
StripBraces(s) ==
    IF Len(s) >= 2 /\ s[1] = "{" /\ s[Len(s)] = "}"
    THEN SubSeq(s, 2, Len(s) - 1) ELSE s
UuidParse(s) ==
    LET h == StripBraces(s)
    IN  IF Len(h) = 2 /\ \A i \in 1..Len(h) : h[i] \in HexDigits
        THEN <<"uuid", h>> ELSE <<"ValueError">>

\* ------------------------------------------------------------------------
\* _abs_norm (manager.py:19-37)
\* ------------------------------------------------------------------------
IsAbs(s) == Len(s) > 0 /\ s[1] = "/"

\* os.path.join(base, raw) for a relative raw
PathJoin(base, raw) ==
    IF base = <<>> \/ base[Len(base)] = "/" THEN base \o raw
    ELSE base \o <<"/">> \o raw

\* the components of a path between the "/" separators
RECURSIVE SplitFrom(_, _, _)
SplitFrom(s, i, cur) ==
    IF i > Len(s) THEN <<cur>>
    ELSE IF s[i] = "/" THEN <<cur>> \o SplitFrom(s, i + 1, <<>>)
    ELSE SplitFrom(s, i + 1, Append(cur, s[i]))
Components(s) == SplitFrom(s, 1, <<>>)

\* os.path.realpath over the components: "" and "." are dropped, ".." pops,
\* a prefix that is a symbolic link is replaced by its target
RECURSIVE Resolve(_, _, _)
Resolve(comps, i, stack) ==
    IF i > Len(comps) THEN stack
    ELSE LET c == comps[i]
         IN  IF c = <<>> \/ c = <<".">> THEN Resolve(comps, i + 1, stack)
             ELSE IF c = <<".", ".">>
                  THEN Resolve(comps, i + 1,
                               IF stack = <<>> THEN stack
                               ELSE SubSeq(stack, 1, Len(stack) - 1))
             ELSE LET pushed == Append(stack, c)
                  IN  Resolve(comps, i + 1,
                              IF pushed \in DOMAIN SymLinks
                              THEN SymLinks[pushed] ELSE pushed)

\* the path "/" c1 "/" c2 ... of a stack of components
RECURSIVE Unsplit(_, _)
Unsplit(stack, i) ==
    IF i > Len(stack) THEN <<>>
    ELSE <<"/">> \o stack[i] \o Unsplit(stack, i + 1)

RealPath(p) ==
    LET st == Resolve(Components(p), 1, <<>>)
    IN  IF st = <<>> THEN <<"/">> ELSE Unsplit(st, 1)

\* an _abs_norm without the early return for a falsy raw path
AbsNormNoEarlyReturn(root, raw) ==
    LET base == IF Truthy(root) THEN root[2] ELSE Cwd
        r == IF IsStr(raw) THEN raw[2] ELSE <<>>
    IN  RealPath(IF IsAbs(r) THEN r ELSE PathJoin(base, r))

\* _abs_norm(root_dir, raw_path): "" for a falsy raw path, else the canonical
\* absolute path
AbsNorm(root, raw) ==
    IF ~Truthy(raw) THEN <<>>
    ELSE LET base == IF Truthy(root) THEN root[2] ELSE Cwd
             p == IF IsAbs(raw[2]) THEN raw[2] ELSE PathJoin(base, raw[2])
         IN  RealPath(p)

\* ------------------------------------------------------------------------
\* _pick_path_from_kwargs (manager.py:39-58)
\* ------------------------------------------------------------------------
\* A dict env is a record of its two keys the code reads; {} has both Absent.
EmptyEnv == [JPY_SESSION_NAME |-> Absent, NOTEBOOK_PATH |-> Absent]

\* a _pick_path_from_kwargs that asks env for NOTEBOOK_PATH first
PickPathNotebookFirst(kwargs) ==
    LET raw == IF Truthy(GetOrNone(kwargs.path)) THEN kwargs.path
               ELSE Str(<<>>)
    IN  IF Truthy(raw) THEN raw
        ELSE LET e == kwargs.env
                 env == IF e[1] = "dict" THEN e[2] ELSE EmptyEnv
             IN  PyOr(GetOrNone(env.NOTEBOOK_PATH),
                      PyOr(GetOrNone(env.JPY_SESSION_NAME), Str(<<>>)))

PickPathFromKwargs(kwargs) ==
    LET raw == PyOr(GetOrNone(kwargs.path), Str(<<>>))
    IN  IF Truthy(raw) THEN raw
        ELSE LET e == kwargs.env
                 \* kwargs.get("env") or {}: None and the empty dict are falsy
                 env == IF e[1] = "dict" THEN e[2] ELSE EmptyEnv
             IN  PyOr(GetOrNone(env.JPY_SESSION_NAME),
                      PyOr(GetOrNone(env.NOTEBOOK_PATH), Str(<<>>)))

\* ------------------------------------------------------------------------
\* _stable_kernel_id (manager.py:60-72)
\* ------------------------------------------------------------------------
\* f"{kernel_name}": a str as it is, None as "None"
Format(v) == IF IsStr(v) THEN v[2] ELSE <<"N", "o", "n", "e">>
\* the name hashed: f"{abs_path}|{kernel_name}"
HashedName(abs_path, kernel_name) == abs_path \o <<"|">> \o Format(kernel_name)
\* str(uuid.uuid5(ns, name)): SHA-1 of namespace and name, collision-free on
\* the pairs (ns, name) of the model
Uuid5(ns, name) == <<"uuid5", ns[2], name>>
StableKernelId(abs_path, kernel_name, ns) ==
    Uuid5(ns, HashedName(abs_path, kernel_name))

\* ------------------------------------------------------------------------
\* _namespace (manager.py:74-85)
\* ------------------------------------------------------------------------
\* a _namespace that makes a namespace of a value that is no UUID
NamespaceNoFallback(v) ==
    IF ~Truthy(v) THEN DEFAULT_NAMESPACE
    ELSE LET u == UuidParse(v[2])
         IN  IF u[1] = "uuid" THEN u ELSE <<"uuid", v[2]>>

Namespace(v) ==
    IF ~Truthy(v) THEN DEFAULT_NAMESPACE
    ELSE LET u == UuidParse(v[2])
         IN  IF u[1] = "uuid" THEN u ELSE DEFAULT_NAMESPACE

\* ------------------------------------------------------------------------
\* Requests: the keyword arguments of a start call
\* ------------------------------------------------------------------------
Python3 == Str(<<"p", "y", "t", "h", "o", "n", "3">>)
KernelIr == Str(<<"i", "r">>)
PathA == Str(<<"a">>)
PathDotA == Str(<<".", "/", "a">>)
EnvSessionB == Dict([JPY_SESSION_NAME |-> Str(<<"b">>), NOTEBOOK_PATH |-> Absent])

\* an id a caller may pass: the very id the manager derives for notebook "a"
\* with the default kernel under the default namespace and the server root
KnownStickyId ==
    StableKernelId(<<"/", "r", "/", "a">>, Python3, DEFAULT_NAMESPACE)

\* The start requests of the model: no path at all; notebook "a" under two
\* spellings; notebook "b" named by the session env with kernel "ir" and a
\* further keyword; an explicit kernel_id (with a path and a session env).
\* extra stands for any further keyword the caller passes (**kwargs)
KwExtra(kid, kname, path, env, extra) ==
    [kernel_id |-> kid, kernel_name |-> kname, path |-> path, env |-> env,
     extra |-> extra]
Kw(kid, kname, path, env) == KwExtra(kid, kname, path, env, Absent)
Requests ==
    { Kw(Absent, Absent, Absent, Absent),
      Kw(Absent, Absent, PathA, Absent),
      Kw(Absent, Absent, PathDotA, Absent),
      KwExtra(Absent, KernelIr, Absent, EnvSessionB, Str(<<"u">>)),
      Kw(KnownStickyId, Absent, PathDotA, EnvSessionB) }

NamespaceValues == {NsUnset, NsOne}
\* every kind of value the variable STICKYKM_NAMESPACE may hold
NamespaceSettings == {NsUnset, NsEmpty, NsMalformed, NsOne, NsOneBraced, NsTwo}

\* The requests the resolution steps are run on: every combination of a path
\* argument (missing, None, "", three spellings of notebook "a": relative,
\* dotted, through the link "l"), an env argument (missing, None, a dict
\* whose JPY_SESSION_NAME and NOTEBOOK_PATH are missing, None, "" or set), a
\* kernel_name (missing, None, given) and a kernel_id or a further keyword.
PathL == Str(<<"l">>)
AbsPathA == Str(<<"/", "r", "/", "a">>)
ResolvePaths == {Absent, None, Str(<<>>), PathA, PathDotA, PathL}
ResolveEnvs ==
    {Absent, None} \cup
    {Dict([JPY_SESSION_NAME |-> j, NOTEBOOK_PATH |-> n]) :
        j \in {Absent, None, Str(<<>>), Str(<<"b">>)},
        n \in {Absent, Str(<<>>), AbsPathA}}
ResolveKernelNames == {Absent, None, Python3, KernelIr}
ResolveRequests ==
    {KwExtra(x[1], kname, path, env, x[2]) :
        x \in {<<Absent, Absent>>, <<Absent, Str(<<"u">>)>>,
               <<KnownStickyId, Absent>>},
        kname \in ResolveKernelNames, path \in ResolvePaths,
        env \in ResolveEnvs}

\* Two requests whose path or kernel_name holds the character the hashed
\* name is joined with: notebook "b|i" with kernel "r", and notebook "b"
\* with kernel "i|r"; and notebook "a" with the default kernel.
PathB == Str(<<"b">>)
PathBBarI == Str(<<"b", "|", "i">>)
KernelR == Str(<<"r">>)
KernelIBarR == Str(<<"i", "|", "r">>)
SeparatorRequests ==
    { Kw(Absent, KernelR, PathBBarI, Absent),
      Kw(Absent, KernelIBarR, PathB, Absent),
      Kw(Absent, Absent, PathA, Absent) }

\* _abs_norm on the raw paths of the requests, computed once
RawPaths ==
    {PickPathFromKwargs(kw) :
        kw \in Requests \cup ResolveRequests \cup SeparatorRequests}
AbsNormOf == [root \in RootDirs, raw \in RawPaths |-> AbsNorm(root, raw)]

\* ------------------------------------------------------------------------
\* State
\* ------------------------------------------------------------------------
VARIABLES
    root_dir,    \* self.parent.root_dir (None when the host gives none)
    environ,     \* os.environ.get("STICKYKM_NAMESPACE")
    kernels,     \* every kernel process the underlying manager spawned
    registry,    \* self._kernels: kernel id -> handle (an index of kernels)
    tasks,       \* start_kernel_async coroutines that have not returned
    unsafe,      \* ids started by explicit override or by overlapping starts
    issued,      \* <<abs_path, kernel_name, namespace, id>> of the ids returned
                 \* to requests without kernel_id that had a path
    retired,     \* ids issued under a namespace the environment has left
    tally,       \* per session id: the start_kernel calls made for it, the
                 \* delegated starts, the starts that raised, the probes
                 \* that answered not alive
    last         \* what the call step just taken did (NoCall otherwise)

vars ==
    <<root_dir, environ, kernels, registry, tasks, unsafe, issued, retired,
      tally, last>>

NoCall == [entry |-> "none"]

\* km.is_alive() of a handle (manager.py:161, 210): whether the process
\* runs, or the probe raises
IsAlive(h, raises) == IF raises THEN <<"raise">> ELSE <<"ok", h.alive>>

\* kwargs after kwargs.pop("kernel_id", None) (manager.py:144, 193)
Popped(kwargs) == [k \in DOMAIN kwargs \ {"kernel_id"} |-> kwargs[k]]

\* kwargs.get("kernel_name", "python3") (manager.py:145, 194)
KernelNameOf(kwargs) ==
    IF kwargs.kernel_name = Absent THEN Python3 ELSE kwargs.kernel_name

\* a _propose_id that hashes under the default namespace whatever is set
ProposeIdDefaultNamespace(abs_path, kernel_name, nsenv) ==
    StableKernelId(abs_path, kernel_name, DEFAULT_NAMESPACE)

\* a _propose_id that keeps the namespace it resolved on its first use
ProposeIdCached(abs_path, kernel_name, nsenv) ==
    StableKernelId(abs_path, kernel_name,
                   IF issued = {} THEN Namespace(nsenv)
                   ELSE (CHOOSE x \in issued : TRUE)[3])

\* self._propose_id (manager.py:116-127): the namespace is read at the call
ProposeId(abs_path, kernel_name, nsenv) ==
    StableKernelId(abs_path, kernel_name, Namespace(nsenv))

\* ------------------------------------------------------------------------
\* start_kernel up to the delegation (manager.py:144-169)
\* ------------------------------------------------------------------------
\* a start_kernel that overwrites the path only where the caller passed one
SyncOutKwargsOnlyGiven(kwargs, abs_path) ==
    IF abs_path # <<>> /\ kwargs.path # Absent
    THEN [kwargs EXCEPT !.path = Str(abs_path)] ELSE kwargs

\* manager.py:152-153
SyncOutKwargs(kwargs, abs_path) ==
    IF abs_path # <<>> THEN [kwargs EXCEPT !.path = Str(abs_path)] ELSE kwargs

\* a start_kernel that never enters its reuse logic
SyncAppliesReuseNever(kernel_id, abs_path) == FALSE

\* manager.py:156
SyncAppliesReuse(kernel_id, abs_path) == kernel_id = None /\ abs_path # <<>>

\* a start_kernel that never sees a registered kernel as alive
SyncAliveNever(h, raises) == FALSE

\* a start_kernel that takes a failing probe for a dead kernel
SyncAliveFailsDead(h, raises) ==
    LET r == IsAlive(h, raises) IN IF r[1] = "raise" THEN FALSE ELSE r[2]

\* manager.py:160-163
SyncAlive(h, raises) ==
    LET r == IsAlive(h, raises) IN IF r[1] = "raise" THEN TRUE ELSE r[2]

\* a start_kernel that forgets to assign the proposed id
SyncFinalIdDropped(kernel_id, proposed) == kernel_id

\* manager.py:169
SyncFinalId(kernel_id, proposed) == proposed

\* manager.py:167-174: self._kernels as start_kernel leaves it for the
\* delegated start; the entry of a dead kernel stays
SyncRegistryAtStart(reg, kernel_id) == reg

\* manager.py:174: no try around the delegated start, its exception leaves
\* start_kernel as it is
SyncFailure(exc, kernel_id) == exc

\* manager.py:173-176: rid is only logged, the superclass result is returned
SyncResult(out, kernel_id) == out

\* a start_kernel that hashes the raw path instead of the canonical one
SyncDecisionRawPath(kwargs, reg, ks, root, nsenv, raises) ==
    LET kernel_id == GetOrNone(kwargs.kernel_id)
        kernel_name == KernelNameOf(kwargs)
        raw_path == PickPathFromKwargs(kwargs)
        abs_path == AbsNormOf[root, raw_path]
        out == SyncOutKwargs(Popped(kwargs), abs_path)
    IN  IF SyncAppliesReuse(kernel_id, abs_path)
        THEN LET proposed == ProposeId(raw_path[2], kernel_name, nsenv)
                 present == proposed \in DOMAIN reg
                 alive == present /\ SyncAlive(ks[reg[proposed]], raises)
             IN  [reuse |-> alive,
                  kernel_id |-> IF alive THEN proposed
                                ELSE SyncFinalId(kernel_id, proposed),
                  kwargs |-> out, lookups |-> {proposed},
                  probes |-> IF present THEN {proposed} ELSE {}]
        ELSE [reuse |-> FALSE, kernel_id |-> kernel_id, kwargs |-> out,
              lookups |-> {}, probes |-> {}]

SyncDecision(kwargs, reg, ks, root, nsenv, raises) ==
    LET kernel_id == GetOrNone(kwargs.kernel_id)
        kernel_name == KernelNameOf(kwargs)
        raw_path == PickPathFromKwargs(kwargs)
        abs_path == AbsNormOf[root, raw_path]
        out == SyncOutKwargs(Popped(kwargs), abs_path)
    IN  IF SyncAppliesReuse(kernel_id, abs_path)
        THEN LET proposed == ProposeId(abs_path, kernel_name, nsenv)
             IN  IF proposed \in DOMAIN reg
                 THEN LET alive == SyncAlive(ks[reg[proposed]], raises)
                      IN  [reuse |-> alive,
                           kernel_id |-> IF alive THEN proposed
                                         ELSE SyncFinalId(kernel_id, proposed),
                           kwargs |-> out, lookups |-> {proposed},
                           probes |-> {proposed}]
                 ELSE [reuse |-> FALSE,
                       kernel_id |-> SyncFinalId(kernel_id, proposed),
                       kwargs |-> out, lookups |-> {proposed}, probes |-> {}]
        ELSE [reuse |-> FALSE, kernel_id |-> kernel_id, kwargs |-> out,
              lookups |-> {}, probes |-> {}]

\* ------------------------------------------------------------------------
\* start_kernel_async up to the await (manager.py:193-216)
\* ------------------------------------------------------------------------
\* a start_kernel_async that forgets to overwrite the outgoing path
AsyncOutKwargsUnchanged(kwargs, abs_path) == kwargs

\* manager.py:201-202
AsyncOutKwargs(kwargs, abs_path) ==
    IF abs_path # <<>> THEN [kwargs EXCEPT !.path = Str(abs_path)] ELSE kwargs

\* a start_kernel_async whose reuse logic ignores the explicit kernel_id
AsyncAppliesReuseAnyId(kernel_id, abs_path) == abs_path # <<>>

\* manager.py:205
AsyncAppliesReuse(kernel_id, abs_path) == kernel_id = None /\ abs_path # <<>>

\* a start_kernel_async that never sees a registered kernel as alive
AsyncAliveNever(h, raises) == FALSE

\* a start_kernel_async that takes a failing probe for a dead kernel
AsyncAliveFailsDead(h, raises) ==
    LET r == IsAlive(h, raises) IN IF r[1] = "raise" THEN FALSE ELSE r[2]

\* manager.py:209-212
AsyncAlive(h, raises) ==
    LET r == IsAlive(h, raises) IN IF r[1] = "raise" THEN TRUE ELSE r[2]

\* a start_kernel_async that forgets to assign the proposed id
AsyncFinalIdDropped(kernel_id, proposed) == kernel_id

\* manager.py:216
AsyncFinalId(kernel_id, proposed) == proposed

\* a start_kernel_async that drops the entry of the id it is about to start
AsyncRegistryEvicts(reg, kernel_id) ==
    [id \in DOMAIN reg \ {kernel_id} |-> reg[id]]

\* manager.py:216-220: self._kernels as start_kernel_async leaves it for the
\* delegated start
AsyncRegistryAtStart(reg, kernel_id) == reg

\* a start_kernel_async that answers a failed start with the id it asked for
AsyncFailureSwallowed(exc, kernel_id) == kernel_id

\* manager.py:220: no try around the awaited start, its exception leaves the
\* coroutine as it is
AsyncFailure(exc, kernel_id) == exc

\* manager.py:220-223
AsyncResult(out, kernel_id) == out

AsyncDecision(kwargs, reg, ks, root, nsenv, raises) ==
    LET kernel_id == GetOrNone(kwargs.kernel_id)
        kernel_name == KernelNameOf(kwargs)
        raw_path == PickPathFromKwargs(kwargs)
        abs_path == AbsNormOf[root, raw_path]
        out == AsyncOutKwargs(Popped(kwargs), abs_path)
    IN  IF AsyncAppliesReuse(kernel_id, abs_path)
        THEN LET proposed == ProposeId(abs_path, kernel_name, nsenv)
             IN  IF proposed \in DOMAIN reg
                 THEN LET alive == AsyncAlive(ks[reg[proposed]], raises)
                      IN  [reuse |-> alive,
                           kernel_id |-> IF alive THEN proposed
                                         ELSE AsyncFinalId(kernel_id, proposed),
                           kwargs |-> out, lookups |-> {proposed},
                           probes |-> {proposed}]
                 ELSE [reuse |-> FALSE,
                       kernel_id |-> AsyncFinalId(kernel_id, proposed),
                       kwargs |-> out, lookups |-> {proposed}, probes |-> {}]
        ELSE [reuse |-> FALSE, kernel_id |-> kernel_id, kwargs |-> out,
              lookups |-> {}, probes |-> {}]

\* ------------------------------------------------------------------------
\* The underlying manager: super().start_kernel / start_kernel_async
\* (manager.py:174, 220).  It spawns a kernel, registers its handle under
\* the id it was given (or one it generates) and returns that id; or it
\* raises and registers nothing.
\* ------------------------------------------------------------------------
NewKernelId(kernel_id, ks) ==
    IF kernel_id = None THEN <<"uuid4", Len(ks) + 1>> ELSE kernel_id
Spawned(ks, kernel_id) ==
    Append(ks, [kid |-> NewKernelId(kernel_id, ks), alive |-> TRUE])
Registered(reg, ks, kernel_id) ==
    (NewKernelId(kernel_id, ks) :> (Len(ks) + 1)) @@ reg

\* one invocation of the underlying start, with what it answered
Invocation(kernel_id, kwargs, out) ==
    [kernel_id |-> kernel_id, kwargs |-> kwargs, out |-> out]
Raised == <<"raised">>
\* how a call ends that ends with the value v: an exception is raised,
\* anything else is returned
Ending(v) == IF v = Raised THEN "raise" ELSE "return"

\* ------------------------------------------------------------------------
\* What the model records for the properties
\* ------------------------------------------------------------------------
\* the ids with a delegated start in flight
InFlight ==
    {tasks[i].kernel_id :
        i \in {j \in 1..Len(tasks) : tasks[j].pc = "awaiting"}}

\* the id of a call about to delegate, when the call carries an explicit
\* kernel_id or overlaps a start in flight for the same id
Hazards(kwargs, kernel_id) ==
    IF kernel_id # None /\ (kwargs.kernel_id # Absent \/ kernel_id \in InFlight)
    THEN {kernel_id} ELSE {}

\* the id derived for the logical session of a request
SessionId(kwargs, nsenv) ==
    StableKernelId(AbsNormOf[root_dir, PickPathFromKwargs(kwargs)],
                   KernelNameOf(kwargs), Namespace(nsenv))

\* what the registry holds for the session of a request as the call starts
Found(kwargs) ==
    LET id == SessionId(kwargs, environ)
    IN  IF id \notin DOMAIN registry THEN "absent"
        ELSE IF kernels[registry[id]].alive THEN "alive" ELSE "dead"

\* the call as it starts: its arguments and what the environment holds
CallRecord(entry, kwargs, raises, d) ==
    [entry |-> entry, kw |-> kwargs, nsenv |-> environ, raises |-> raises,
     before |-> registry, found |-> Found(kwargs),
     lookups |-> d.lookups, probes |-> d.probes]

\* is_alive() can raise only where a handle exists to be probed
ProbeAnswers == IF registry = <<>> THEN {FALSE} ELSE BOOLEAN

\* the id a request without kernel_id and with a path was answered with
Issue(kwargs, nsenv, ret) ==
    LET abs_path == AbsNormOf[root_dir, PickPathFromKwargs(kwargs)]
    IN  IF kwargs.kernel_id = Absent /\ abs_path # <<>>
        THEN {<<abs_path, KernelNameOf(kwargs), Namespace(nsenv), ret>>}
        ELSE {}

\* ------------------------------------------------------------------------
\* Scheduling: the event loop runs one callback at a time; a coroutine gives
\* up the loop only where it awaits (manager.py:220)
\* ------------------------------------------------------------------------
\* a coroutine that never gives up the loop (a blocking start)
SuspendedNever(pc) == FALSE

\* a coroutine that also awaits between its decision and the start
SuspendedBeforeStart(pc) == pc \in {"starting", "awaiting"}

Suspended(pc) == pc = "awaiting"
LoopFree == \A i \in 1..Len(tasks) : Suspended(tasks[i].pc)

Init ==
    /\ root_dir = ServerRoot
    /\ environ \in NamespaceValues
    /\ kernels = <<>>
    /\ registry = <<>>
    /\ tasks = <<>>
    /\ unsafe = {}
    /\ issued = {}
    /\ retired = {}
    /\ tally = <<>>
    /\ last = NoCall

\* start_kernel (manager.py:129-176), run to completion
StartKernel(kwargs) ==
    /\ LoopFree
    /\ \E raises \in ProbeAnswers :
       LET d == SyncDecision(kwargs, registry, kernels, root_dir, environ,
                             raises)
           rec == CallRecord("sync", kwargs, raises, d)
       IN  IF d.reuse
           THEN /\ last' = rec @@ [event |-> "return", ret |-> d.kernel_id,
                                   starts |-> <<>>]
                /\ issued' = issued \cup Issue(kwargs, environ, d.kernel_id)
                /\ UNCHANGED <<kernels, registry, unsafe>>
           ELSE /\ Len(kernels) + Len(tasks) < MaxKernels
                /\ unsafe' = unsafe \cup Hazards(kwargs, d.kernel_id)
                /\ \E ok \in BOOLEAN :
                     IF ok
                     THEN LET out == NewKernelId(d.kernel_id, kernels)
                          IN  /\ kernels' = Spawned(kernels, d.kernel_id)
                              /\ registry' = Registered(
                                   SyncRegistryAtStart(registry, d.kernel_id),
                                   kernels, d.kernel_id)
                              /\ issued' = issued \cup
                                   Issue(kwargs, environ,
                                         SyncResult(out, d.kernel_id))
                              /\ last' = rec @@
                                   [event |-> "return",
                                    ret |-> SyncResult(out, d.kernel_id),
                                    starts |-> <<Invocation(d.kernel_id,
                                                            d.kwargs, out)>>]
                     ELSE /\ registry' = SyncRegistryAtStart(registry,
                                                              d.kernel_id)
                          /\ UNCHANGED <<kernels, issued>>
                          /\ last' = rec @@
                               [event |-> Ending(SyncFailure(Raised,
                                                             d.kernel_id)),
                                ret |-> SyncFailure(Raised, d.kernel_id),
                                starts |-> <<Invocation(d.kernel_id, d.kwargs,
                                                        Raised)>>]
    /\ UNCHANGED <<root_dir, environ, tasks, retired>>

\* start_kernel_async (manager.py:193-216): from the call to the decision
AsyncCall(kwargs) ==
    /\ LoopFree
    /\ \E raises \in ProbeAnswers :
       LET d == AsyncDecision(kwargs, registry, kernels, root_dir, environ,
                              raises)
           rec == CallRecord("async", kwargs, raises, d)
       IN  IF d.reuse
           THEN /\ last' = rec @@ [event |-> "return", ret |-> d.kernel_id,
                                   starts |-> <<>>]
                /\ issued' = issued \cup Issue(kwargs, environ, d.kernel_id)
                /\ UNCHANGED tasks
           ELSE /\ Len(tasks) < MaxTasks
                /\ Len(kernels) + Len(tasks) < MaxKernels
                /\ tasks' = Append(tasks, rec @@
                               [pc |-> "starting", kernel_id |-> d.kernel_id,
                                kwargs |-> d.kwargs, starts |-> <<>>])
                /\ last' = NoCall
                /\ UNCHANGED issued
    /\ UNCHANGED <<root_dir, environ, kernels, registry, unsafe, retired,
                   tally>>

\* manager.py:219-220: the superclass coroutine is invoked and awaited
AsyncInvoke(i) ==
    /\ tasks[i].pc = "starting"
    /\ tasks' = [tasks EXCEPT ![i].pc = "awaiting", ![i].before = <<>>]
    /\ unsafe' = unsafe \cup Hazards(tasks[i].kw, tasks[i].kernel_id)
    /\ registry' = AsyncRegistryAtStart(registry, tasks[i].kernel_id)
    /\ last' = NoCall
    /\ UNCHANGED <<root_dir, environ, kernels, issued, retired, tally>>

Without(seq, i) == SubSeq(seq, 1, i - 1) \o SubSeq(seq, i + 1, Len(seq))
Observed(t) ==
    [entry |-> t.entry, kw |-> t.kw, nsenv |-> t.nsenv, raises |-> t.raises,
     before |-> t.before, found |-> t.found,
     lookups |-> t.lookups, probes |-> t.probes]

\* manager.py:220-223: the awaited start completes and the coroutine returns
\* its result, or the start raises and the exception leaves the coroutine
AsyncResume(i) ==
    /\ LoopFree
    /\ tasks[i].pc = "awaiting"
    /\ tasks' = Without(tasks, i)
    /\ \E ok \in BOOLEAN :
         IF ok
         THEN LET out == NewKernelId(tasks[i].kernel_id, kernels)
              IN  /\ kernels' = Spawned(kernels, tasks[i].kernel_id)
                  /\ registry' = Registered(registry, kernels,
                                            tasks[i].kernel_id)
                  /\ issued' = issued \cup
                       Issue(tasks[i].kw, tasks[i].nsenv,
                             AsyncResult(out, tasks[i].kernel_id))
                  /\ last' = Observed(tasks[i]) @@
                       [event |-> "return",
                        ret |-> AsyncResult(out, tasks[i].kernel_id),
                        starts |-> <<Invocation(tasks[i].kernel_id,
                                                tasks[i].kwargs, out)>>]
         ELSE /\ UNCHANGED <<kernels, registry, issued>>
              /\ last' = Observed(tasks[i]) @@
                   [event |-> Ending(AsyncFailure(Raised, tasks[i].kernel_id)),
                    ret |-> AsyncFailure(Raised, tasks[i].kernel_id),
                    starts |-> <<Invocation(tasks[i].kernel_id,
                                            tasks[i].kwargs, Raised)>>]
    /\ UNCHANGED <<root_dir, environ, unsafe, retired, tally>>

\* a kernel process exits
KernelDies(k) ==
    /\ kernels[k].alive
    /\ kernels' = [kernels EXCEPT ![k].alive = FALSE]
    /\ last' = NoCall
    /\ UNCHANGED <<root_dir, environ, registry, tasks, unsafe, issued,
                   retired, tally>>

Next ==
    \/ \E kwargs \in Requests : StartKernel(kwargs) /\ UNCHANGED tally
    \/ \E kwargs \in Requests : AsyncCall(kwargs)
    \/ \E i \in 1..Len(tasks) : AsyncInvoke(i)
    \/ \E i \in 1..Len(tasks) : AsyncResume(i)
    \/ \E k \in 1..Len(kernels) : KernelDies(k)

Spec == Init /\ [][Next]_vars

\* ------------------------------------------------------------------------
\* The manager in a process whose STICKYKM_NAMESPACE changes while it runs
\* ------------------------------------------------------------------------
\* requests: notebook "a"; an explicit kernel_id
NamespaceRequests ==
    { Kw(Absent, Absent, PathA, Absent),
      Kw(KnownStickyId, Absent, PathDotA, EnvSessionB) }
\* the settings the variable moves between: unset, no UUID, a UUID
ProcessNamespaces == {NsUnset, NsMalformed, NsOne}

\* os.environ["STICKYKM_NAMESPACE"] is assigned, or the variable deleted
SetNamespace(v) ==
    /\ LoopFree
    /\ v # environ
    /\ environ' = v
    /\ retired' = retired \cup
         {x[4] : x \in {y \in issued : y[3] # Namespace(v)}}
    /\ last' = NoCall
    /\ UNCHANGED <<root_dir, kernels, registry, tasks, unsafe, issued, tally>>

NamespaceInit ==
    /\ root_dir = ServerRoot
    /\ environ \in ProcessNamespaces
    /\ kernels = <<>>
    /\ registry = <<>>
    /\ tasks = <<>>
    /\ unsafe = {}
    /\ issued = {}
    /\ retired = {}
    /\ tally = <<>>
    /\ last = NoCall

NamespaceNext ==
    \/ \E kwargs \in NamespaceRequests :
         StartKernel(kwargs) /\ UNCHANGED tally
    \/ \E kwargs \in NamespaceRequests : AsyncCall(kwargs)
    \/ \E i \in 1..Len(tasks) : AsyncInvoke(i)
    \/ \E i \in 1..Len(tasks) : AsyncResume(i)
    \/ \E k \in 1..Len(kernels) : KernelDies(k)
    \/ \E v \in ProcessNamespaces : SetNamespace(v)

NamespaceSpec == NamespaceInit /\ [][NamespaceNext]_vars

\* ------------------------------------------------------------------------
\* The run-to-completion use of the manager: start_kernel calls without
\* kernel_id, one after the other, under a namespace that does not change
\* ------------------------------------------------------------------------
SequentialRequests == {kwargs \in Requests : kwargs.kernel_id = Absent}

ZeroTally == [calls |-> 0, invoked |-> 0, failed |-> 0, notalive |-> 0]
TallyOf(id) == IF id \in DOMAIN tally THEN tally[id] ELSE ZeroTally

\* the tally after a call: the call, the delegated start it made, whether
\* that start raised, whether its probe answered not alive
Tallied(t, call) ==
    LET id == SessionId(call.kw, call.nsenv)
        old == IF id \in DOMAIN t THEN t[id] ELSE ZeroTally
        started == call.starts # <<>>
    IN  IF AbsNormOf[root_dir, PickPathFromKwargs(call.kw)] = <<>> THEN t
        ELSE (id :> [calls |-> old.calls + 1,
                     invoked |-> old.invoked + Len(call.starts),
                     failed |-> old.failed +
                         (IF started /\ call.starts[1].out = Raised
                          THEN 1 ELSE 0),
                     notalive |-> old.notalive +
                         (IF call.probes # {} /\ call.found = "dead"
                               /\ ~call.raises
                          THEN 1 ELSE 0)]) @@ t

SequentialStart(kwargs) ==
    /\ TallyOf(SessionId(kwargs, environ)).calls < MaxRequests
    /\ StartKernel(kwargs)
    /\ tally' = Tallied(tally, last')

SequentialInit ==
    /\ root_dir = ServerRoot
    /\ environ \in NamespaceValues
    /\ kernels = <<>>
    /\ registry = <<>>
    /\ tasks = <<>>
    /\ unsafe = {}
    /\ issued = {}
    /\ retired = {}
    /\ tally = <<>>
    /\ last = NoCall

SequentialNext ==
    \/ \E kwargs \in SequentialRequests : SequentialStart(kwargs)
    \/ \E k \in 1..Len(kernels) : KernelDies(k)

SequentialSpec == SequentialInit /\ [][SequentialNext]_vars

\* ------------------------------------------------------------------------
\* start_kernel calls for notebooks and kernel types whose names hold the
\* separator of the hashed name, one after the other under one namespace
\* ------------------------------------------------------------------------
SeparatorInit ==
    /\ root_dir = ServerRoot
    /\ environ \in NamespaceValues
    /\ kernels = <<>>
    /\ registry = <<>>
    /\ tasks = <<>>
    /\ unsafe = {}
    /\ issued = {}
    /\ retired = {}
    /\ tally = <<>>
    /\ last = NoCall

SeparatorNext ==
    \/ \E kwargs \in SeparatorRequests : StartKernel(kwargs) /\ UNCHANGED tally
    \/ \E k \in 1..Len(kernels) : KernelDies(k)

SeparatorSpec == SeparatorInit /\ [][SeparatorNext]_vars

\* ------------------------------------------------------------------------
\* The resolution of one request, statement by statement: what start_kernel
\* and start_kernel_async compute before they touch the registry
\* (manager.py:144-157, 193-206), on any host configuration
\* ------------------------------------------------------------------------
ResolverInit ==
    /\ root_dir \in RootDirs
    /\ environ \in NamespaceSettings
    /\ kernels = <<>>
    /\ registry = <<>>
    /\ tasks = <<>>
    /\ unsafe = {}
    /\ issued = {}
    /\ retired = {}
    /\ tally = <<>>
    /\ last = NoCall

ResolverFrame ==
    UNCHANGED <<root_dir, environ, kernels, registry, tasks, unsafe, issued,
                retired, tally>>

\* the call arrives (manager.py:144-145, 193-194)
Receive(kwargs) ==
    /\ last = NoCall
    /\ last' = [entry |-> "resolve", pc |-> "called", kw |-> kwargs,
                kernel_id |-> GetOrNone(kwargs.kernel_id),
                kernel_name |-> KernelNameOf(kwargs),
                raw_path |-> None, abs_path |-> None, proposed |-> None]
    /\ ResolverFrame

\* manager.py:148, 197
PickPath ==
    /\ last.entry = "resolve" /\ last.pc = "called"
    /\ last' = [last EXCEPT !.pc = "picked",
                            !.raw_path = PickPathFromKwargs(Popped(last.kw))]
    /\ ResolverFrame

\* manager.py:149, 198
Normalize ==
    /\ last.entry = "resolve" /\ last.pc = "picked"
    /\ last' = [last EXCEPT !.pc = "normalized",
                            !.abs_path = AbsNorm(root_dir, last.raw_path)]
    /\ ResolverFrame

\* manager.py:156-157, 205-206
Propose ==
    /\ last.entry = "resolve" /\ last.pc = "normalized"
    /\ SyncAppliesReuse(last.kernel_id, last.abs_path)
    /\ last' = [last EXCEPT !.pc = "proposed",
                            !.proposed = ProposeId(last.abs_path,
                                                   last.kernel_name, environ)]
    /\ ResolverFrame

ResolverNext ==
    \/ \E kwargs \in ResolveRequests : Receive(kwargs)
    \/ PickPath
    \/ Normalize
    \/ Propose

ResolverSpec == ResolverInit /\ [][ResolverNext]_vars

\* ------------------------------------------------------------------------
\* Properties
\* ------------------------------------------------------------------------
IsCall == last.entry # "none"
NoKernelId == last.kw.kernel_id = Absent
LastAbs == AbsNormOf[root_dir, PickPathFromKwargs(last.kw)]
LastProposed ==
    StableKernelId(LastAbs, KernelNameOf(last.kw), Namespace(last.nsenv))
LiveWithId(id) == {k \in 1..Len(kernels) : kernels[k].kid = id /\ kernels[k].alive}
KernelIds == {kernels[k].kid : k \in 1..Len(kernels)}

\* C1: a start request (sync or async) without kernel_id, whose path
\* normalizes to a non-empty canonical path, whose proposed id is registered
\* and whose handle answers is_alive() with true, returns exactly the proposed
\* id, never invokes the underlying start and leaves the registry unchanged.
C1_ReuseOutcome ==
    (IsCall /\ NoKernelId /\ LastAbs # <<>> /\ last.found = "alive"
        /\ ~last.raises)
    => /\ last.event = "return"
       /\ last.ret = LastProposed
       /\ last.starts = <<>>
       /\ registry = last.before

\* an async request under the second spelling of notebook "a" reuses the
\* live kernel
C1_Witness ==
    /\ IsCall /\ last.entry = "async" /\ NoKernelId
    /\ last.kw.path = PathDotA /\ last.found = "alive" /\ ~last.raises
    /\ last.event = "return" /\ last.ret = LastProposed
    /\ LastProposed \in DOMAIN registry
    /\ kernels[registry[LastProposed]].alive

C3_FailSafeLiveness ==
    (IsCall /\ NoKernelId /\ LastAbs # <<>> /\ last.found # "absent"
        /\ last.raises)
    => /\ last.event = "return"
       /\ last.ret = LastProposed
       /\ last.starts = <<>>

\* the probe raises on a kernel that is in fact dead, and the id is reused
C3_Witness ==
    /\ IsCall /\ NoKernelId /\ LastAbs # <<>> /\ last.found = "dead"
    /\ last.raises /\ last.event = "return" /\ last.ret = LastProposed
    /\ last.probes = {LastProposed}

C5_ExplicitOverride ==
    (IsCall /\ ~NoKernelId)
    => /\ last.lookups = {}
       /\ last.probes = {}
       /\ Len(last.starts) = 1
       /\ last.starts[1].kernel_id = last.kw.kernel_id

\* the override is honoured although a live kernel is registered for the
\* request's path and kernel type
C5_Witness ==
    /\ IsCall /\ ~NoKernelId /\ LastAbs # <<>> /\ last.found = "alive"
    /\ last.event = "return" /\ last.lookups = {}
    /\ last.starts[1].kernel_id = last.kw.kernel_id

\* the request names no notebook: no truthy path and no truthy env hint
NoPathHints(kwargs) ==
    /\ ~Truthy(GetOrNone(kwargs.path))
    /\ \/ kwargs.env[1] # "dict"
       \/ /\ ~Truthy(GetOrNone(kwargs.env[2].JPY_SESSION_NAME))
          /\ ~Truthy(GetOrNone(kwargs.env[2].NOTEBOOK_PATH))

\* C6: a request with no path, no JPY_SESSION_NAME / NOTEBOOK_PATH hint and
\* no kernel_id makes no registry lookup and no probe, adds no path argument,
\* and invokes the underlying start once with kernel_id None, so that the id
\* returned is the one the underlying manager generated.
C6_NoPathStart ==
    (IsCall /\ NoKernelId /\ NoPathHints(last.kw))
    => /\ last.lookups = {}
       /\ last.probes = {}
       /\ Len(last.starts) = 1
       /\ last.starts[1].kernel_id = None
       /\ last.starts[1].kwargs = Popped(last.kw)
       /\ last.event = "return" =>
            /\ last.ret = last.starts[1].out
            /\ last.ret[1] = "uuid4"

\* a no-path start returned a generated id while a derived id is registered
C6_Witness ==
    /\ IsCall /\ NoKernelId /\ NoPathHints(last.kw)
    /\ last.event = "return" /\ last.ret[1] = "uuid4"
    /\ last.starts[1].kernel_id = None
    /\ \E id \in DOMAIN last.before : id[1] = "uuid5"

\* C7: a request without kernel_id, with a non-empty canonical path, whose
\* proposed id (hashed from the canonical path and the kernel type under the
\* namespace set when the call is made) is not registered, invokes the
\* underlying start exactly once with that id, and returns what that start
\* reports.
C7_FirstStart ==
    (IsCall /\ NoKernelId /\ LastAbs # <<>> /\ last.found = "absent")
    => /\ Len(last.starts) = 1
       /\ last.starts[1].kernel_id = LastProposed
       /\ last.event = "return" => last.ret = last.starts[1].out
       /\ last.event = "raise" => last.starts[1].out = Raised

\* a first start under a namespace set in the environment
C7_Witness ==
    /\ IsCall /\ NoKernelId /\ LastAbs # <<>> /\ last.found = "absent"
    /\ last.nsenv = NsOne /\ last.event = "return"
    /\ last.starts[1].kernel_id = LastProposed
    /\ last.ret = LastProposed

\* C8: all the ids returned to requests without kernel_id for one logical
\* session (canonical path, kernel type) under one namespace are the same
\* id, however often the kernel died and was replaced in between.
C8_IdentityStable ==
    \A x \in issued : \A y \in issued :
        (x[1] = y[1] /\ x[2] = y[2] /\ x[3] = y[3]) => x[4] = y[4]

\* a replacement returned the id the session was given before
C8_Witness ==
    /\ IsCall /\ NoKernelId /\ LastAbs # <<>> /\ last.found = "dead"
    /\ ~last.raises /\ last.event = "return"
    /\ <<LastAbs, KernelNameOf(last.kw), Namespace(last.nsenv), last.ret>>
         \in issued
    /\ Cardinality({k \in 1..Len(kernels) : kernels[k].kid = last.ret}) = 2

\* the tasks that are suspended in the delegated start
Awaiting == {i \in 1..Len(tasks) : tasks[i].pc = "awaiting"}

\* C9: the manager puts no mutual exclusion around the membership test and
\* the delegated start: while a start_kernel_async request awaits the start
\* of a proposed id that is not registered, a second start_kernel_async
\* request for the same session is accepted, observes the id as not present
\* and goes on to start the same id.
C9_NoMutualExclusion ==
    \A i \in 1..Len(tasks) :
        (/\ Awaiting = 1..Len(tasks)
         /\ Len(tasks) < MaxTasks
         /\ Len(kernels) + Len(tasks) < MaxKernels
         /\ tasks[i].kw.kernel_id = Absent
         /\ tasks[i].lookups # {}
         /\ tasks[i].kernel_id \notin DOMAIN registry
         /\ tasks[i].nsenv = environ)
        => ENABLED (/\ AsyncCall(tasks[i].kw)
                    /\ Len(tasks') = Len(tasks) + 1
                    /\ tasks'[Len(tasks')].kernel_id = tasks[i].kernel_id
                    /\ tasks'[Len(tasks')].found = "absent")

\* the race: two requests await the start of the same proposed id, and both
\* found it not present
C9_Witness ==
    \E i \in Awaiting : \E j \in Awaiting :
        /\ i # j
        /\ tasks[i].kernel_id = tasks[j].kernel_id
        /\ tasks[i].kw.kernel_id = Absent /\ tasks[j].kw.kernel_id = Absent
        /\ tasks[i].found = "absent" /\ tasks[j].found = "absent"
        /\ tasks[i].lookups = {tasks[i].kernel_id}
        /\ tasks[j].lookups = {tasks[j].kernel_id}

\* C10: a start_kernel_async request gives up the event loop only in the
\* delegated start: from its membership test to its invocation of the
\* underlying start, or to its reuse return, no other request changes the
\* registry.
C10_NoSuspensionBeforeStart ==
    /\ \A i \in 1..Len(tasks) :
         tasks[i].pc = "starting" => registry = tasks[i].before
    /\ (IsCall /\ last.entry = "async" /\ last.starts = <<>>)
         => registry = last.before

\* a request is between its decision and its start while the start of
\* another request for the same id is in flight and cannot complete yet
C10_Witness ==
    \E i \in 1..Len(tasks) : \E j \in Awaiting :
        /\ tasks[i].pc = "starting"
        /\ registry = tasks[i].before
        /\ tasks[i].kernel_id = tasks[j].kernel_id
        /\ ~ENABLED AsyncResume(j)

\* the session of a request holds a registered kernel that is dead
DeadFor(kwargs) == Found(kwargs) = "dead"

\* C11: for every request, every namespace setting and every registry state
\* (the proposed id absent, registered alive, registered dead, and a probe
\* that raises), start_kernel and start_kernel_async decide alike: both
\* reuse and return the same id, or both delegate with the same kernel_id
\* and the same outgoing keyword arguments.
C11_SyncAsyncEquivalent ==
    \A kwargs \in Requests : \A nsenv \in NamespaceSettings :
        \A raises \in BOOLEAN :
            LET s == SyncDecision(kwargs, registry, kernels, root_dir, nsenv,
                                  raises)
                a == AsyncDecision(kwargs, registry, kernels, root_dir, nsenv,
                                   raises)
            IN  /\ s.reuse = a.reuse
                /\ s.kernel_id = a.kernel_id
                /\ s.kwargs = a.kwargs

\* a registered kernel has died: on a raising probe both
\* entry points reuse its id, on an answering probe both delegate with that
\* id and the canonical path
C11_Witness ==
    \E kwargs \in Requests :
        /\ kwargs.kernel_id = Absent /\ DeadFor(kwargs)
        /\ SyncDecision(kwargs, registry, kernels, root_dir, environ, TRUE).reuse
        /\ AsyncDecision(kwargs, registry, kernels, root_dir, environ, TRUE).reuse
        /\ LET s == SyncDecision(kwargs, registry, kernels, root_dir, environ,
                                 FALSE)
               a == AsyncDecision(kwargs, registry, kernels, root_dir, environ,
                                  FALSE)
           IN  /\ ~s.reuse /\ ~a.reuse
               /\ a.kernel_id = SessionId(kwargs, environ)
               /\ s.kernel_id = a.kernel_id
               /\ a.kwargs.path = Str(AbsNormOf[root_dir,
                                                PickPathFromKwargs(kwargs)])
               /\ s.kwargs = a.kwargs

\* a keyword or env entry that is given and not empty
Given(v) == v # Absent /\ v # None /\ v # Str(<<>>)
\* the entry of the env argument under a key, when env is a dict
EnvEntry(kwargs, key) ==
    IF kwargs.env = Absent \/ kwargs.env = None THEN Absent
    ELSE kwargs.env[2][key]

\* C12: the raw path of a request is its path argument when that is not
\* empty; otherwise env's JPY_SESSION_NAME when not empty; otherwise env's
\* NOTEBOOK_PATH when not empty; otherwise "" (also when env is missing or
\* None).
C12_PathPrecedence ==
    (last.entry = "resolve" /\ last.pc # "called")
    => last.raw_path =
         IF Given(last.kw.path) THEN last.kw.path
         ELSE IF Given(EnvEntry(last.kw, "JPY_SESSION_NAME"))
              THEN EnvEntry(last.kw, "JPY_SESSION_NAME")
         ELSE IF Given(EnvEntry(last.kw, "NOTEBOOK_PATH"))
              THEN EnvEntry(last.kw, "NOTEBOOK_PATH")
         ELSE Str(<<>>)

\* an empty path argument, a session name of None and a notebook path: the
\* notebook path is picked
C12_Witness ==
    /\ last.entry = "resolve" /\ last.pc = "picked"
    /\ last.kw.path = Str(<<>>)
    /\ EnvEntry(last.kw, "JPY_SESSION_NAME") = None
    /\ EnvEntry(last.kw, "NOTEBOOK_PATH") = AbsPathA
    /\ last.raw_path = AbsPathA

\* the ids issued under another namespace than the one a call was made under
IssuedElsewhere(nsenv) ==
    {x[4] : x \in {y \in issued : y[3] # Namespace(nsenv)}}

\* C13 as stated: the namespace is read on every request, a request made
\* after the namespace changed proposes the id under the new namespace and
\* does not reuse a kernel created under the old one, and an id derived
\* under a namespace that was changed is never looked up again by any later
\* request.
C13_OldIdsNeverLookedUpAgain ==
    (IsCall /\ NoKernelId /\ LastAbs # <<>>)
    => /\ last.lookups = {LastProposed}
       /\ last.lookups \cap retired = {}
       /\ last.ret \notin retired

\* C13 amended: a request looks up exactly the id derived under the
\* namespace set when the request is made; it neither looks up nor returns
\* an id issued under a different namespace, and it starts a kernel under
\* the new id unless that id is already registered.  (An id issued under a
\* namespace is looked up again once the namespace is set back to it.)
C13_CurrentNamespaceOnly ==
    (IsCall /\ NoKernelId /\ LastAbs # <<>>)
    => /\ last.lookups = {LastProposed}
       /\ last.lookups \cap IssuedElsewhere(last.nsenv) = {}
       /\ last.ret \notin IssuedElsewhere(last.nsenv)
       /\ last.found = "absent" =>
            /\ Len(last.starts) = 1
            /\ last.starts[1].kernel_id = LastProposed

\* the namespace changed while the kernel of notebook "a" was alive: the
\* next request for "a" starts a second kernel under the new id and leaves
\* the old one registered and alive
C13_Witness ==
    /\ IsCall /\ NoKernelId /\ LastAbs # <<>>
    /\ last.found = "absent" /\ last.event = "return"
    /\ last.ret = LastProposed
    /\ \E old \in retired :
         /\ old # last.ret
         /\ old \in DOMAIN registry
         /\ kernels[registry[old]].alive
         /\ old \notin last.lookups

\* STICKYKM_NAMESPACE unset, empty, or holding a string that is no UUID
FallbackSettings == {NsUnset, NsEmpty, NsMalformed}

\* C14: when STICKYKM_NAMESPACE is unset, empty or no well-formed UUID,
\* _namespace returns DEFAULT_NAMESPACE, the request goes on to its proposal
\* with no error, and the id proposed is the one hashed under
\* DEFAULT_NAMESPACE.
C14_NamespaceFallback ==
    (last.entry = "resolve" /\ environ \in FallbackSettings)
    => /\ Namespace(environ) = DEFAULT_NAMESPACE
       /\ (last.pc = "normalized"
              /\ SyncAppliesReuse(last.kernel_id, last.abs_path))
            => ENABLED Propose
       /\ last.pc = "proposed" =>
            last.proposed = Uuid5(DEFAULT_NAMESPACE,
                                  HashedName(last.abs_path, last.kernel_name))

\* a request made under a setting that is no UUID got the id of the default
\* namespace
C14_Witness ==
    /\ last.entry = "resolve" /\ last.pc = "proposed"
    /\ environ = NsMalformed
    /\ last.proposed = Uuid5(DEFAULT_NAMESPACE,
                             HashedName(last.abs_path, last.kernel_name))
    /\ last.proposed # Uuid5(Namespace(NsOne),
                             HashedName(last.abs_path, last.kernel_name))

\* the settings deployments are configured with: the installer's per-project
\* values, the usage guide's value, and two UUIDs
ProjectSettings == {NsMalformed, NsOtherProject, NsUsageGuide, NsOne, NsTwo}

\* C15: two deployments configured with different STICKYKM_NAMESPACE
\* settings never obtain the same kernel id for the same canonical path and
\* kernel type.
C15_NamespacesPartition ==
    (last.entry = "resolve" /\ last.pc = "proposed"
        /\ environ \in ProjectSettings)
    => \A other \in ProjectSettings \ {environ} :
           ProposeId(last.abs_path, last.kernel_name, other) # last.proposed

\* the requests without kernel_id that name the notebook and the kernel type
\* of the request just resolved
SameSession ==
    {kwargs \in ResolveRequests :
        /\ kwargs.kernel_id = Absent
        /\ AbsNormOf[root_dir, PickPathFromKwargs(kwargs)] = last.abs_path
        /\ KernelNameOf(kwargs) = last.kernel_name}

\* C16: two requests without kernel_id whose raw paths normalize to the same
\* canonical path and whose kernel type is the same are given the same
\* proposed id under the same namespace, whatever the spelling of the path,
\* the argument that carried it, the other env entries and the further
\* keywords: the id start_kernel decides on for any such request is the id
\* proposed for the request just resolved.
C16_CallerAgnostic ==
    (last.entry = "resolve" /\ last.pc = "proposed")
    => \A kwargs \in SameSession :
           SyncDecision(kwargs, registry, kernels, root_dir, environ,
                        FALSE).kernel_id = last.proposed

\* notebook "a" reached through the link "l" in the path argument, and by
\* its absolute path in env's NOTEBOOK_PATH with a further keyword
C16_Witness ==
    /\ last.entry = "resolve" /\ last.pc = "proposed"
    /\ last.kw.path = PathL /\ last.kw.extra = Absent
    /\ \E kwargs \in SameSession :
         /\ kwargs.path = Absent /\ kwargs.extra # Absent
         /\ EnvEntry(kwargs, "NOTEBOOK_PATH") = AbsPathA
         /\ SyncDecision(kwargs, registry, kernels, root_dir, environ,
                         FALSE).kernel_id = last.proposed

\* C17: the manager never removes, replaces or inserts a registry entry
\* itself: the registry changes in a step only when a delegated start
\* returns, and then by the entry that start registers; a request that ends
\* in reuse, and a delegated start that raises, leave the registry as it
\* was; and while the start that replaces a dead kernel is in flight the
\* dead kernel's entry is still registered.
C17_RegistryFrame ==
    /\ [][registry' # registry =>
            /\ last'.entry # "none"
            /\ Len(last'.starts) = 1
            /\ last'.event = "return"
            /\ registry' = (last'.ret :> Len(kernels')) @@ registry]_vars
    /\ [](\A i \in Awaiting :
            (tasks[i].kw.kernel_id = Absent /\ tasks[i].found = "dead")
            => tasks[i].kernel_id \in DOMAIN registry)

\* the replacement of a dead kernel is in flight and the dead kernel is
\* still registered under the id being started
C17_Witness ==
    \E i \in Awaiting :
        /\ tasks[i].kw.kernel_id = Absent /\ tasks[i].found = "dead"
        /\ tasks[i].kernel_id \in DOMAIN registry
        /\ ~kernels[registry[tasks[i].kernel_id]].alive

\* the failures that occurred inside the call just ended and did not reach
\* its caller: a raising is_alive() probe, a STICKYKM_NAMESPACE that
\* uuid.UUID rejects, a delegated start that raised
Suppressed ==
    {f \in {"is_alive", "uuid.UUID", "start"} :
        \/ f = "is_alive" /\ last.probes # {} /\ last.raises
        \/ /\ f = "uuid.UUID" /\ last.lookups # {}
           /\ Truthy(last.nsenv)
           /\ UuidParse(last.nsenv[2]) = <<"ValueError">>
        \/ /\ f = "start" /\ last.starts # <<>>
           /\ last.starts[1].out = Raised
           /\ last.ret # Raised}

\* a failed delegated start reaches the caller as it is
StartFailurePropagates ==
    (last.starts # <<>> /\ last.starts[1].out = Raised)
    => /\ last.event = "raise"
       /\ last.ret = last.starts[1].out

\* C18 as stated: a failure of the delegated start reaches the caller of
\* start_kernel / start_kernel_async unchanged, and the only failure the
\* manager ever suppresses is a failure of the liveness check.
C18_OnlyLivenessSuppressed ==
    IsCall => (StartFailurePropagates /\ Suppressed \subseteq {"is_alive"})

\* C18 amended: a failure of the delegated start reaches the caller
\* unchanged, and the only failures the manager suppresses are a failure of
\* the liveness check and a STICKYKM_NAMESPACE value that is no UUID.
C18_StartFailurePropagates ==
    IsCall => (/\ StartFailurePropagates
               /\ Suppressed \subseteq {"is_alive", "uuid.UUID"})

\* under a namespace setting that is no UUID, the awaited start of a proposed
\* id raised and the exception left the coroutine
C18_Witness ==
    /\ IsCall /\ last.entry = "async" /\ NoKernelId
    /\ last.nsenv = NsMalformed
    /\ last.starts # <<>> /\ last.starts[1].out = Raised
    /\ last.starts[1].kernel_id = LastProposed
    /\ last.event = "raise" /\ last.ret = Raised
    /\ Suppressed = {"uuid.UUID"}

\* C19: whenever the canonical path of a request is not empty and the
\* request is delegated, the underlying start receives path equal to the
\* canonical path (in place of the raw path, and added where env carried
\* the path), also under an explicit kernel_id; every other keyword but
\* kernel_id (kernel_name, env, any further keyword) is passed on as the
\* caller gave it.
C19_OutgoingParameters ==
    (IsCall /\ last.starts # <<>> /\ LastAbs # <<>>)
    => LET sent == last.starts[1].kwargs
       IN  /\ DOMAIN sent = DOMAIN last.kw \ {"kernel_id"}
           /\ sent.path = Str(LastAbs)
           /\ \A k \in DOMAIN sent \ {"path"} : sent[k] = last.kw[k]

\* a request whose path came from env's session name, with kernel "ir" and
\* a further keyword: the start received the canonical path and the rest as
\* given
C19_Witness ==
    /\ IsCall /\ last.entry = "sync" /\ last.starts # <<>>
    /\ last.kw.path = Absent /\ last.kw.env = EnvSessionB
    /\ last.starts[1].kwargs.path = Str(<<"/", "r", "/", "b">>)
    /\ last.starts[1].kwargs.env = EnvSessionB
    /\ last.starts[1].kwargs.extra = Str(<<"u">>)
    /\ last.starts[1].kwargs.kernel_name = last.kw.kernel_name

\* the request just resolved names no kernel type: kernel_name is missing,
\* or present with the value None
NoKernelType == last.kw.kernel_name = Absent \/ last.kw.kernel_name = None

\* C20: a request that names no kernel type (kernel_name missing, or present
\* with no value) is keyed as kernel type "python3": it is proposed the id
\* of the same canonical path under kernel_name "python3".
C20_DefaultKernelType ==
    (last.entry = "resolve" /\ last.pc = "proposed" /\ NoKernelType)
    => last.proposed = ProposeId(last.abs_path, Python3, environ)

\* C21: when the kernel registered for the session of a request without
\* kernel_id is dead and the liveness probe raises, the request returns the
\* dead kernel's id after one lookup and one probe (no retry), starts
\* nothing, and leaves the session as it found it: the same dead kernel is
\* registered under the id, so the next request whose probe raises meets
\* the same case, for as long as the probe keeps failing.
C21_MaskedDeadKernel ==
    (IsCall /\ NoKernelId /\ LastAbs # <<>> /\ last.found = "dead"
        /\ last.raises)
    => /\ last.event = "return"
       /\ last.ret = LastProposed
       /\ last.lookups = {LastProposed}
       /\ last.probes = {LastProposed}
       /\ last.starts = <<>>
       /\ registry = last.before
       /\ ~kernels[registry[LastProposed]].alive
       /\ Found(last.kw) = "dead"

\* an async request was answered with the id of the one kernel ever started
\* for its session, which is dead
C21_Witness ==
    /\ IsCall /\ last.entry = "async" /\ NoKernelId /\ LastAbs # <<>>
    /\ last.found = "dead" /\ last.raises
    /\ last.event = "return" /\ last.ret = LastProposed
    /\ last.starts = <<>>
    /\ LiveWithId(LastProposed) = {}
    /\ Cardinality({k \in 1..Len(kernels) :
                       kernels[k].kid = LastProposed}) = 1

\* as long as the kernel of a session is alive, a request for the session
\* returns that kernel's id and starts nothing
AliveIsReused ==
    (IsCall /\ NoKernelId /\ LastAbs # <<>> /\ last.found = "alive")
    => /\ last.starts = <<>>
       /\ last.event = "return"
       /\ last.ret = kernels[registry[LastProposed]].kid

\* C22 as stated: in a sequential run of start_kernel calls without
\* kernel_id under one namespace, the underlying start is invoked for a
\* session at most once plus the number of requests that observed the
\* session's registered kernel as not alive; while the kernel stays alive
\* every request after the first returns its id without starting another.
C22_StartsBoundedByDeaths ==
    /\ \A id \in DOMAIN tally :
         tally[id].invoked <= 1 + tally[id].notalive
    /\ AliveIsReused

\* C22 amended: the underlying start is invoked for a session at most once
\* plus the number of requests that observed its registered kernel as not
\* alive plus the number of invocations that raised; while the kernel stays
\* alive every request returns its id without starting another.
C22_StartsBoundedByDeathsAndFailures ==
    /\ \A id \in DOMAIN tally :
         tally[id].invoked <= 1 + tally[id].notalive + tally[id].failed
    /\ AliveIsReused

\* three calls for one session: the first started its kernel, the kernel
\* died, one call found it not alive and replaced it, and one call reused
\* a live kernel
C22_Witness ==
    /\ IsCall /\ NoKernelId /\ LastAbs # <<>>
    /\ last.found = "alive" /\ last.starts = <<>>
    /\ LET t == TallyOf(LastProposed)
       IN  /\ t.calls = 3 /\ t.invoked = 2
           /\ t.notalive = 1 /\ t.failed = 0

\* C23: two logical sessions (canonical path, kernel type) that differ are
\* hashed under different names, so under one namespace they are never
\* answered with the same id and never reuse each other's kernel: the ids
\* returned to requests without kernel_id for two different sessions under
\* one namespace differ.
C23_DistinctSessionsDistinctIds ==
    \A x \in issued : \A y \in issued :
        (x[3] = y[3] /\ <<x[1], x[2]>> # <<y[1], y[2]>>) => x[4] # y[4]

====
